---- MODULE Spec2Model ----
(***************************************************************************)
(* A model of the uv trampoline launcher, crates/uv-trampoline/src/        *)
(* bounce.rs: the trailer reader, the child command line builder, and the  *)
(* spawn / job / cleanup / wait sequence of bounce(), together with the    *)
(* operating-system objects it acts on (the child process, its             *)
(* descendants, the job object, console control events).                   *)
(*                                                                         *)
(* Bytes are integers 0..255 and byte strings are sequences of bytes.      *)
(* File reads are taken to succeed and to return the whole window.         *)
(***************************************************************************)
EXTENDS Integers, Sequences, FiniteSets, TLC

\* ------------------------------------------------------------------ bytes

QUOTE == 34
BACKSLASH == 92
SPACE == 32
NUL == 0
COLON == 58
SLASH == 47

Min(a, b) == IF a < b THEN a ELSE b

\* A 32-bit value is kept as its two 16-bit halves, value = hi * 65536 + lo.
U32(hi, lo) == [hi |-> hi, lo |-> lo]

u32_of(n) == U32(n \div 65536, n % 65536)

u32_gt(x, n) ==
  \/ x.hi > n \div 65536
  \/ x.hi = n \div 65536 /\ x.lo > n % 65536

\* `as usize` of a u32 known to be small.
as_usize(x) == x.hi * 65536 + x.lo

\* The printable ASCII characters, code 32 first.
Printable ==
  << " ", "!", "\"", "#", "$", "%", "&", "'", "(", ")", "*", "+", ",", "-", ".", "/",
     "0", "1", "2", "3", "4", "5", "6", "7", "8", "9", ":", ";", "<", "=", ">", "?",
     "@", "A", "B", "C", "D", "E", "F", "G", "H", "I", "J", "K", "L", "M", "N", "O",
     "P", "Q", "R", "S", "T", "U", "V", "W", "X", "Y", "Z", "[", "\\", "]", "^", "_",
     "grave", "a", "b", "c", "d", "e", "f", "g", "h", "i", "j", "k", "l", "m", "n", "o",
     "p", "q", "r", "s", "t", "u", "v", "w", "x", "y", "z", "{", "|", "}", "~" >>

Ord(c) == 31 + (CHOOSE i \in 1..Len(Printable) : Printable[i] = c)

LOWER_A == Ord("a")

\* The bytes of a text given as a tuple of one-character strings.
Bytes(chars) == [i \in 1..Len(chars) |-> Ord(chars[i])]

\* n copies of byte b.
Fill(n, b) == [i \in 1..n |-> b]

ends_with(buffer, suffix) ==
  /\ Len(buffer) >= Len(suffix)
  /\ SubSeq(buffer, Len(buffer) - Len(suffix) + 1, Len(buffer)) = suffix

\* Vec::truncate: keep the first n elements (no effect when n >= len).
truncate(buffer, n) == IF n >= Len(buffer) THEN buffer ELSE SubSeq(buffer, 1, n)

\* ---------------------------------------------------------- trailer format

PATH_LEN_SIZE == 4
MAX_PATH_LEN == 32 * 1024
INITIAL_WINDOW == 1024

magic_number(kind) ==
  IF kind = "Script" THEN Bytes(<<"U", "V", "S", "C">>) ELSE Bytes(<<"U", "V", "P", "Y">>)

from_buffer(buffer) ==
  IF ends_with(buffer, magic_number("Script")) THEN "Script"
  ELSE IF ends_with(buffer, magic_number("Python")) THEN "Python"
  ELSE "None"

u32_from_le_bytes(b) == U32(b[3] + b[4] * 256, b[1] + b[2] * 256)

\* The writer's side of the format: a u32 as four little-endian bytes.
u32_to_le_bytes(x) ==
  << x.lo % 256, x.lo \div 256, x.hi % 256, x.hi \div 256 >>

\* String::from_utf8 accepts exactly the well-formed UTF-8 byte sequences.
IsCont(b) == b \in 128..191

Utf8Width(b) ==
  IF b < 128 THEN 1
  ELSE IF b \in 194..223 THEN 2
  ELSE IF b \in 224..239 THEN 3
  ELSE IF b \in 240..244 THEN 4
  ELSE 0

Utf8Second(lead) ==
  IF lead = 224 THEN 160..191
  ELSE IF lead = 237 THEN 128..159
  ELSE IF lead = 240 THEN 144..191
  ELSE IF lead = 244 THEN 128..143
  ELSE 128..191

is_utf8(s) ==
  /\ Len(s) > 0 => ~IsCont(s[1])
  /\ \A i \in 1..Len(s) :
       ~IsCont(s[i]) =>
         LET w == Utf8Width(s[i]) IN
         /\ w >= 1
         /\ i + w - 1 <= Len(s)
         /\ \A j \in (i + 1)..(i + w - 1) : IsCont(s[j])
         /\ w >= 2 => s[i + 1] \in Utf8Second(s[i])
         /\ i + w <= Len(s) => ~IsCont(s[i + w])

\* The launcher image on disk, described by its parts: leadpad filler bytes,
\* then leadtail, then the path (stem followed by pad filler bytes), then
\* whatever was appended after the path (a well-formed image has the path
\* length as u32 little-endian and the 4-byte tag there).
\* Lead bytes of the image: n bytes 0x90, a UTF-8 continuation byte.
LeadBytes(n) == Fill(n, 144)

ImagePath(image) == image.stem \o Fill(image.pad, LOWER_A)

ImageBytes(image) ==
  LeadBytes(image.leadpad) \o image.leadtail \o ImagePath(image) \o image.trailer

ImageSize(image) ==
  image.leadpad + Len(image.leadtail) + Len(image.stem) + image.pad + Len(image.trailer)

\* seek(SeekFrom::Start(file_size - bytes_to_read)) followed by a read that
\* fills the buffer: the last bytes_to_read bytes of the file.
ReadTail(image, bytes_to_read) ==
  LET size == ImageSize(image) IN
  SubSeq(ImageBytes(image), size - bytes_to_read + 1, size)

\* 1024.min(u32::try_from(file_size).unwrap_or(u32::MAX)): saturating the
\* size at u32::MAX never changes the minimum with 1024.
InitialBytesToRead(file_size) == Min(INITIAL_WINDOW, file_size)

\* A drain from the wrong end: the first path_len bytes stay.
drain_keeps_front(buffer, path_len) == SubSeq(buffer, 1, path_len)

\* buffer.drain(..path_offset) with path_offset = buffer.len() - path_len:
\* the last path_len bytes stay.
drain_to_path(buffer, path_len) == SubSeq(buffer, Len(buffer) - path_len + 1, Len(buffer))

\* One iteration of the loop of read_trampoline_metadata over the window
\* just read. The outcome is one of
\*   break    : the path bytes were found and are valid UTF-8
\*   retry    : the window is too small, read again with bytes_to_read
\*   error    : error_and_exit with the given message
\*   overflow : buffer.len() - PATH_LEN_SIZE underflows usize
ReadIteration(window, file_size) ==
  LET inner_kind == from_buffer(window) IN
  IF inner_kind = "None"
  THEN [out |-> "error", msg |-> "magic number not found"]
  ELSE
    LET b1 == truncate(window, Len(window) - Len(magic_number(inner_kind))) IN
    IF Len(b1) < PATH_LEN_SIZE
    THEN [out |-> "overflow", msg |-> "length missing"]
    ELSE
      LET len_field == u32_from_le_bytes(SubSeq(b1, Len(b1) - PATH_LEN_SIZE + 1, Len(b1)))
          path_len == as_usize(len_field)
          b2 == truncate(b1, Len(b1) - PATH_LEN_SIZE)
      IN
      IF u32_gt(len_field, MAX_PATH_LEN)
      THEN [out |-> "error", msg |-> "path too long"]
      ELSE IF Len(b2) >= path_len
      THEN
        LET bytes == drain_to_path(b2, path_len) IN
        IF is_utf8(bytes)
        THEN [out |-> "break", kind |-> inner_kind, path |-> bytes]
        ELSE [out |-> "error", msg |-> "path not utf-8"]
      ELSE
        LET next == path_len + Len(magic_number(inner_kind)) + PATH_LEN_SIZE IN
        IF next > file_size
        THEN [out |-> "error", msg |-> "path length exceeds file size"]
        ELSE [out |-> "retry", kind |-> inner_kind, bytes_to_read |-> next]

\* ------------------------------------------------------- paths (Windows)
\* std::path on Windows, for paths with at most a drive prefix (no path of
\* the model starts with two separators, so UNC and verbatim prefixes do
\* not occur).

IsSep(b) == b = BACKSLASH \/ b = SLASH

IsLetter(b) == b \in 65..90 \/ b \in 97..122

PrefixLen(p) == IF Len(p) >= 2 /\ IsLetter(p[1]) /\ p[2] = COLON THEN 2 ELSE 0

has_root(p) == Len(p) > PrefixLen(p) /\ IsSep(p[PrefixLen(p) + 1])

is_absolute(p) == PrefixLen(p) > 0 /\ has_root(p)

\* Length of the prefix and root of p: nothing before it can be removed.
RootLen(p) == PrefixLen(p) + (IF has_root(p) THEN 1 ELSE 0)

\* Path::parent: the path without its final component, None when the path
\* ends in a root or prefix or is empty. Trailing separators are ignored.
parent(p) ==
  LET r == RootLen(p) IN
  IF \A i \in (r + 1)..Len(p) : IsSep(p[i]) THEN [some |-> FALSE, path |-> <<>>]
  ELSE
    LET \* the last byte of the final component, its first byte, and the
        \* last byte of what precedes it
        e == CHOOSE i \in (r + 1)..Len(p) :
               ~IsSep(p[i]) /\ \A j \in (i + 1)..Len(p) : IsSep(p[j])
        s == CHOOSE i \in (r + 1)..e :
               (i = r + 1 \/ IsSep(p[i - 1])) /\ \A j \in i..e : ~IsSep(p[j])
        t == CHOOSE i \in r..(s - 1) :
               (i = r \/ ~IsSep(p[i])) /\ \A j \in (i + 1)..(s - 1) : IsSep(p[j])
    IN [some |-> TRUE, path |-> SubSeq(p, 1, t)]

\* Path::join (PathBuf::push): an absolute path or one with a prefix replaces
\* the base, a rooted path keeps only the base's prefix, anything else is
\* appended after a separator.
join(base, p) ==
  IF is_absolute(p) \/ PrefixLen(p) > 0 THEN p
  ELSE IF has_root(p) THEN SubSeq(base, 1, PrefixLen(base)) \o p
  ELSE IF Len(base) = 0 \/ IsSep(base[Len(base)]) \/ Len(base) = PrefixLen(base)
  THEN base \o p
  ELSE base \o <<BACKSLASH>> \o p

\* dunce::canonicalize against the file system: the canonical path of an
\* existing file, an error for a path that does not exist.
canonicalize(fs, p) ==
  IF p \in DOMAIN fs.canon
  THEN [ok |-> TRUE, path |-> fs.canon[p]]
  ELSE [ok |-> FALSE, path |-> <<>>]

PYVENV_CFG == Bytes(<<"p", "y", "v", "e", "n", "v", ".", "c", "f", "g">>)

is_virtualenv(fs, executable) ==
  LET p1 == parent(executable)
      p2 == IF p1.some THEN parent(p1.path) ELSE p1
  IN IF p2.some THEN join(p2.path, PYVENV_CFG) \in fs.files ELSE FALSE

\* Lines 271-297 of read_trampoline_metadata: the decoded path made absolute
\* and, for some, canonical. The second test reads the joined path.
ResolvePathOf(fs, executable_name, kind, decoded) ==
  LET parent_dir == parent(executable_name) IN
  IF ~is_absolute(decoded) /\ ~parent_dir.some
  THEN [out |-> "error", msg |-> "no parent directory", path |-> <<>>]
  ELSE
    LET joined == IF is_absolute(decoded) THEN decoded ELSE join(parent_dir.path, decoded) IN
    IF ~is_absolute(joined) \/ kind = "Script"
    THEN
      LET c == canonicalize(fs, joined) IN
      IF c.ok THEN [out |-> "ok", msg |-> "", path |-> c.path]
      ELSE [out |-> "error", msg |-> "canonicalize failed", path |-> <<>>]
    ELSE [out |-> "ok", msg |-> "", path |-> joined]

\* --------------------------------------------------------- command line

\* The body of the loop of push_quoted_path over a whole path: a double
\* quote becomes three, any other byte is copied.
RECURSIVE QuoteBytes(_)
QuoteBytes(path) ==
  IF Len(path) = 0 THEN <<>>
  ELSE IF Len(path) = 1
  THEN IF path[1] = QUOTE THEN <<QUOTE, QUOTE, QUOTE>> ELSE path
  ELSE
    LET h == Len(path) \div 2 IN
    QuoteBytes(SubSeq(path, 1, h)) \o QuoteBytes(SubSeq(path, h + 1, Len(path)))

push_quoted_path(path, command) ==
  command \o <<QUOTE>> \o QuoteBytes(path) \o <<QUOTE>>

\* u8::is_ascii_whitespace: space, tab, line feed, form feed, carriage return.
is_ascii_whitespace(b) == b \in {32, 9, 10, 12, 13}

\* The loop of skip_one_argument from 1-based position i of the iterator,
\* with the offset and the quoted flag as they stand; the result is the
\* final offset.
RECURSIVE SkipLoop(_, _, _, _)
SkipLoop(arguments, i, offset, quoted) ==
  IF i > Len(arguments) THEN offset
  ELSE
    LET byte == arguments[i] IN
    IF byte = QUOTE
    THEN SkipLoop(arguments, i + 1, offset + 1, ~quoted)
    ELSE IF byte = BACKSLASH
    THEN
      IF i + 1 <= Len(arguments) /\ arguments[i + 1] \in {QUOTE, BACKSLASH}
      THEN SkipLoop(arguments, i + 2, offset + 2, quoted)
      ELSE SkipLoop(arguments, i + 1, offset + 1, quoted)
    ELSE IF is_ascii_whitespace(byte) /\ ~quoted
    THEN offset
    ELSE SkipLoop(arguments, i + 1, offset + 1, quoted)

\* A skip that cuts at the first whitespace byte whatever the quoted state.
skip_ignoring_quotes(arguments) ==
  IF \E i \in 1..Len(arguments) : is_ascii_whitespace(arguments[i])
  THEN SubSeq(arguments,
              CHOOSE i \in 1..Len(arguments) :
                /\ is_ascii_whitespace(arguments[i])
                /\ \A j \in 1..(i - 1) : ~is_ascii_whitespace(arguments[j]),
              Len(arguments))
  ELSE <<>>

\* A slice that starts one byte later, past the byte at offset.
slice_after_offset(arguments, offset) == SubSeq(arguments, offset + 2, Len(arguments))

\* &arguments[offset..]
SliceFrom(arguments, offset) == SubSeq(arguments, offset + 1, Len(arguments))

skip_one_argument(arguments) == SliceFrom(arguments, SkipLoop(arguments, 1, 0, FALSE))

push_arguments(command_line, output) == output \o skip_one_argument(command_line)

\* std::env::var(name).is_ok_and(|v| !v.is_empty()): a value that is not
\* valid Unicode is an Err.
env_var_is_nonempty(value) == value.st = "unicode" /\ Len(value.val) > 0

EnvUnset == [st |-> "unset", val |-> <<>>]
EnvValue(bytes) == [st |-> "unicode", val |-> bytes]
\* A value holding an unpaired surrogate (U+D800, in the encoded bytes of an
\* OsString): std::env::var reports Err(NotUnicode) for it.
EnvNotUnicode == [st |-> "not_unicode", val |-> <<237, 160, 128>>]

\* A command line that leaves the launcher's path out in Script kind too.
child_cmdline_without_script(executable_name, command_line, kind, python_exe) ==
  push_arguments(command_line, push_quoted_path(python_exe, <<>>) \o <<SPACE>>) \o <<NUL>>

\* The bytes make_child_cmdline pushes onto child_cmdline, in order.
child_cmdline_bytes(executable_name, command_line, kind, python_exe) ==
  LET c1 == push_quoted_path(python_exe, <<>>) \o <<SPACE>>
      c2 == IF kind = "Script" THEN push_quoted_path(executable_name, c1) ELSE c1
  IN push_arguments(command_line, c2) \o <<NUL>>

\* make_child_cmdline after read_trampoline_metadata has returned
\* (kind, python_exe): the command line and the environment it leaves, or
\* the way it ends the process.
MakeChildCmdline(fs, env, executable_name, command_line, kind, python_exe) ==
  LET python_home_set == env_var_is_nonempty(env.PYTHONHOME)
      set_home == kind = "Python" /\ ~is_virtualenv(fs, python_exe) /\ ~python_home_set
      home == parent(python_exe)
      env1 == IF kind = "Python"
              THEN [env EXCEPT !.__PYVENV_LAUNCHER__ = EnvValue(executable_name)]
              ELSE env
      env2 == IF set_home /\ home.some
              THEN [env1 EXCEPT !.PYTHONHOME = EnvValue(home.path)]
              ELSE env1
      c3 == child_cmdline_bytes(executable_name, command_line, kind, python_exe)
  IN
  IF set_home /\ ~home.some
  THEN [out |-> "panic", env |-> env1, cmdline |-> <<>>]
  ELSE IF \E i \in 1..(Len(c3) - 1) : c3[i] = NUL
  THEN [out |-> "error", env |-> env2, cmdline |-> <<>>]
  ELSE [out |-> "ok", env |-> env2, cmdline |-> c3]

\* ------------------------------------------------------------ exit codes

NoStatus == U32(-1, -1)

\* `code as i32` and back to the DWORD that ExitProcess takes.
u32_as_i32(x) == IF x.hi >= 32768 THEN (x.hi - 65536) * 65536 + x.lo ELSE x.hi * 65536 + x.lo

i32_as_u32(n) == U32((n \div 65536) % 65536, n % 65536)

\* An exit status cut to its low byte.
exit_with_low_byte(code) == U32(0, code.lo % 256)

\* exit_with_status: std::process::exit(code as i32).
exit_with_status(code) == i32_as_u32(u32_as_i32(code))

\* The status of a process that panicked: 101 when the panic unwinds out of
\* main, the fast-fail status 0xC0000409 when the build aborts on panic.
PanicStatuses == {u32_of(101), U32(49152, 1033)}

\* The status of a process ended by the default console control handler
\* (STATUS_CONTROL_C_EXIT, 0xC000013A).
ControlCExit == U32(49152, 314)

\* The status a forced termination gives the launcher.
KilledStatus == u32_of(1)

STILL_ACTIVE == u32_of(259)

\* ------------------------------------------------------------- the state

VARIABLES
  \* the launcher's surroundings, fixed for a run
  image,            \* the launcher's own executable file, by parts
  executable_name,  \* std::env::current_exe()
  command_line,     \* GetCommandLineA()
  fs,               \* the file system: canonical paths and existing files
  is_gui,           \* the argument of bounce
  si,               \* GetStartupInfoA(): dwFlags and the lpReserved2 table
  \* the launcher
  pc,               \* the step the launcher is at
  bytes_to_read,    \* read_trampoline_metadata
  kind,             \* read_trampoline_metadata / make_child_cmdline
  path,             \* the decoded, then resolved path (python_exe)
  child_cmdline,    \* the command line built for the child
  env,              \* the process environment
  cwd,              \* the current directory: "original" or "temp"
  exit_status,      \* the launcher's exit status, NoStatus while it runs
  diag,             \* the message of error_and_exit, "" when none
  last_warning,     \* the last warn! of the latest step, "" when none
  \* operating-system objects
  open_handles,     \* the handles open in the launcher
  std_slots,        \* the standard handle slots of the launcher
  child,            \* "none", "running", "exited", "killed"
  child_code,       \* the child's exit code once it exited
  child_in_job,
  grandchild,       \* a process the child created: "none", "running", "exited", "killed"
  grandchild_in_job,
  job,              \* "none", "open", "closed"
  job_limits,       \* LimitFlags of the job
  handler_installed,
  ctrl_events,      \* console control events delivered to the launcher so far
  last_event,       \* the latest of them, "" when none
  spawn_attempted,  \* CreateProcessA has been called
  exit_code_read,   \* GetExitCodeProcess returned a code: [open, state]
  \* the command-line functions applied on their own
  arguments,        \* the input of skip_one_argument / push_quoted_path
  remainder,        \* the result of skip_one_argument
  quoted_path       \* the result of push_quoted_path

inputs == <<image, executable_name, command_line, fs, is_gui, si>>
locals == <<bytes_to_read, kind, path, child_cmdline>>
outcome == <<exit_status, diag>>
procs == <<child, child_code, child_in_job, grandchild, grandchild_in_job>>
jobvars == <<job, job_limits>>
console == <<handler_installed, ctrl_events, last_event>>
fnvars == <<arguments, remainder, quoted_path>>

vars ==
  << image, executable_name, command_line, fs, is_gui, si, pc, bytes_to_read, kind, path,
     child_cmdline, env, cwd, exit_status, diag, last_warning, open_handles, std_slots,
     child, child_code, child_in_job, grandchild, grandchild_in_job, job, job_limits,
     handler_installed, ctrl_events, last_event, spawn_attempted, exit_code_read,
     arguments, remainder, quoted_path >>

Alive == pc \notin {"exited", "killed", "fn_start", "fn_skipped", "fn_quoted", "fn_done"}

\* Handle values. The sentinels are INVALID_HANDLE_VALUE (-1) and -2.
INVALID_HANDLE_VALUE == -1
NO_FILE_HANDLE == -2
Handle ==
  [stdin |-> 4, stdout |-> 8, stderr |-> 12, fd3 |-> 16, fd4 |-> 20,
   child_process |-> 24, child_thread |-> 28, job |-> 32]

\* ------------------------------------------------- the end of the launcher
\* When the launcher process ends, however it ends, the system closes its
\* handles. Closing the last handle of a job with KILL_ON_JOB_CLOSE set
\* terminates the processes associated with the job.
EndLauncher(how, status, msg) ==
  LET kill == job = "open" /\ "KILL_ON_JOB_CLOSE" \in job_limits IN
  /\ pc' = how
  /\ exit_status' = status
  /\ diag' = msg
  /\ open_handles' = {}
  /\ job' = IF job = "open" THEN "closed" ELSE job
  /\ child' = IF kill /\ child_in_job /\ child = "running" THEN "killed" ELSE child
  /\ grandchild' =
       IF kill /\ grandchild_in_job /\ grandchild = "running" THEN "killed" ELSE grandchild
  /\ UNCHANGED <<child_code, child_in_job, grandchild_in_job, job_limits>>

\* error_and_exit / print_last_error_and_exit: a diagnostic, then status 1.
error_and_exit(msg) == EndLauncher("exited", exit_with_status(u32_of(1)), msg)

\* A panic: the panic message, then the status the build gives a panic.
Panic(msg) == \E st \in PanicStatuses : EndLauncher("exited", st, msg)

\* What a launcher step that does not end the process leaves alone.
StillRunning ==
  UNCHANGED <<exit_status, diag, open_handles, procs, jobvars>>

\* ------------------------------------------------- make_child_cmdline

\* read_trampoline_metadata up to the loop: the file is opened, its size
\* taken and the first window chosen.
OpenImage ==
  /\ pc = "start"
  /\ pc' = "read_loop"
  /\ bytes_to_read' = InitialBytesToRead(ImageSize(image))
  /\ last_warning' = ""
  /\ StillRunning
  /\ UNCHANGED <<inputs, kind, path, child_cmdline, env, cwd, std_slots, console,
                 spawn_attempted, exit_code_read, fnvars>>

\* One iteration of the loop of read_trampoline_metadata.
ReadWindow ==
  /\ pc = "read_loop"
  /\ LET r == ReadIteration(ReadTail(image, bytes_to_read), ImageSize(image)) IN
     \/ /\ r.out = "break"
        /\ pc' = "resolve_path"
        /\ kind' = r.kind
        /\ path' = r.path
        /\ UNCHANGED bytes_to_read
        /\ StillRunning
     \/ /\ r.out = "retry"
        /\ pc' = "read_loop"
        /\ kind' = r.kind
        /\ bytes_to_read' = r.bytes_to_read
        /\ UNCHANGED path
        /\ StillRunning
     \/ /\ r.out = "error"
        /\ error_and_exit(r.msg)
        /\ UNCHANGED <<bytes_to_read, kind, path>>
     \/ /\ r.out = "overflow"
        \* buffer.len() - PATH_LEN_SIZE with fewer than 4 bytes left: with
        \* overflow checks the subtraction panics, without them it wraps,
        \* get() is out of range and the None arm reports the error.
        /\ \/ error_and_exit(r.msg)
           \/ Panic("attempt to subtract with overflow")
        /\ UNCHANGED <<bytes_to_read, kind, path>>
  /\ last_warning' = ""
  /\ UNCHANGED <<inputs, child_cmdline, env, cwd, std_slots, console, spawn_attempted,
                 exit_code_read, fnvars>>

\* The rest of read_trampoline_metadata: the path made absolute and
\* canonical.
ResolvePath ==
  /\ pc = "resolve_path"
  /\ LET r == ResolvePathOf(fs, executable_name, kind, path) IN
     \/ /\ r.out = "ok"
        /\ pc' = "make_child_cmdline"
        /\ path' = r.path
        /\ StillRunning
     \/ /\ r.out = "error"
        /\ error_and_exit(r.msg)
        /\ UNCHANGED path
  /\ last_warning' = ""
  /\ UNCHANGED <<inputs, bytes_to_read, kind, child_cmdline, env, cwd, std_slots, console,
                 spawn_attempted, exit_code_read, fnvars>>

\* make_child_cmdline from the return of read_trampoline_metadata on.
BuildCmdline ==
  /\ pc = "make_child_cmdline"
  /\ LET r == MakeChildCmdline(fs, env, executable_name, command_line, kind, path) IN
     /\ env' = r.env
     /\ \/ /\ r.out = "ok"
           /\ pc' = "spawn_child"
           /\ child_cmdline' = r.cmdline
           /\ StillRunning
        \/ /\ r.out = "error"
           /\ error_and_exit("command line not null terminated")
           /\ UNCHANGED child_cmdline
        \/ /\ r.out = "panic"
           /\ Panic("Python executable should have a parent directory")
           /\ UNCHANGED child_cmdline
  /\ last_warning' = ""
  /\ UNCHANGED <<inputs, bytes_to_read, kind, path, cwd, std_slots, console,
                 spawn_attempted, exit_code_read, fnvars>>

\* ---------------------------------------------------------- spawn_child

\* The last of a sequence of warnings that was given, "" when none was.
LastOf(warnings) == IF Len(warnings) = 0 THEN "" ELSE warnings[Len(warnings)]

InheritWarnings(failed) ==
  (IF "stdin" \in failed THEN <<"Making stdin inheritable failed">> ELSE <<>>)
  \o (IF "stdout" \in failed THEN <<"Making stdout inheritable failed">> ELSE <<>>)
  \o (IF "stderr" \in failed THEN <<"Making stderr inheritable failed">> ELSE <<>>)

\* spawn_child up to the return of CreateProcessA. The command line is
\* consumed by the call.
CreateProcess ==
  /\ pc = "spawn_child"
  /\ spawn_attempted' = TRUE
  /\ \E failed \in (IF si.use_std_handles THEN SUBSET {"stdin", "stdout", "stderr"} ELSE {{}}),
        created \in BOOLEAN :
       /\ last_warning' = LastOf(InheritWarnings(failed))
       /\ IF created
          THEN /\ pc' = "close_thread"
               /\ child' = "running"
               /\ open_handles' = open_handles \cup {Handle.child_process, Handle.child_thread}
               /\ UNCHANGED <<exit_status, diag, child_code, child_in_job, grandchild,
                              grandchild_in_job, jobvars>>
          ELSE error_and_exit("Failed to spawn the python child process")
  /\ bytes_to_read' = 0
  /\ kind' = "None"
  /\ path' = <<>>
  /\ child_cmdline' = <<>>
  /\ UNCHANGED <<inputs, env, cwd, std_slots, console, exit_code_read, fnvars>>

\* spawn_child: the handle of the child's main thread is closed.
CloseThreadHandle ==
  /\ pc = "close_thread"
  /\ \E closed \in BOOLEAN :
       IF closed
       THEN /\ pc' = "make_job_object"
            /\ open_handles' = open_handles \ {Handle.child_thread}
            /\ UNCHANGED <<exit_status, diag, procs, jobvars>>
       ELSE error_and_exit("Failed to close handle to python child process main thread")
  /\ last_warning' = ""
  /\ UNCHANGED <<inputs, locals, env, cwd, std_slots, console, spawn_attempted,
                 exit_code_read, fnvars>>

\* ------------------------------------------------------ make_job_object

CreateJob ==
  /\ pc = "make_job_object"
  /\ \E created \in BOOLEAN :
       IF created
       THEN /\ pc' = "configure_job"
            /\ job' = "open"
            /\ job_limits' = {}
            /\ open_handles' = open_handles \cup {Handle.job}
            /\ UNCHANGED <<exit_status, diag, procs>>
       ELSE error_and_exit("Job creation failed")
  /\ last_warning' = ""
  /\ UNCHANGED <<inputs, locals, env, cwd, std_slots, console, spawn_attempted,
                 exit_code_read, fnvars>>

\* QueryInformationJobObject, the two limit flags, SetInformationJobObject.
ConfigureJob ==
  /\ pc = "configure_job"
  /\ \E result \in {"ok", "query_failed", "set_failed"} :
       CASE result = "ok" ->
              /\ pc' = "assign_job"
              /\ job_limits' = job_limits \cup {"KILL_ON_JOB_CLOSE", "SILENT_BREAKAWAY_OK"}
              /\ UNCHANGED <<exit_status, diag, open_handles, procs, job>>
         [] result = "query_failed" -> error_and_exit("Job information querying failed")
         [] result = "set_failed" -> error_and_exit("Job information setting failed")
  /\ last_warning' = ""
  /\ UNCHANGED <<inputs, locals, env, cwd, std_slots, console, spawn_attempted,
                 exit_code_read, fnvars>>

\* bounce: AssignProcessToJobObject.
AssignJob ==
  /\ pc = "assign_job"
  /\ \E assigned \in BOOLEAN :
       IF assigned
       THEN /\ pc' = "close_handles"
            /\ child_in_job' = TRUE
            /\ UNCHANGED <<exit_status, diag, open_handles, child, child_code, grandchild,
                           grandchild_in_job, jobvars>>
       ELSE error_and_exit("Failed to assign child process to the job")
  /\ last_warning' = ""
  /\ UNCHANGED <<inputs, locals, env, cwd, std_slots, console, spawn_attempted,
                 exit_code_read, fnvars>>

\* -------------------------------------------------------- close_handles

\* HANDLE::is_invalid: the null handle and INVALID_HANDLE_VALUE.
is_invalid(h) == h = INVALID_HANDLE_VALUE \/ h = 0

\* The standard handle part of close_handles for one of STD_INPUT_HANDLE,
\* STD_OUTPUT_HANDLE: st is [open, slots, warnings]; close_fails and
\* set_fails say which of the two calls the system refuses.
CloseStd(st, name, close_fails, set_fails) ==
  LET h == st.slots[name] IN
  IF is_invalid(h) THEN st   \* GetStdHandle is an Err
  ELSE
    LET closed == h \in st.open /\ ~close_fails
        w1 == IF closed THEN <<>> ELSE <<"Failed to close standard device handle">>
        w2 == IF set_fails THEN <<"Failed to modify standard device handle">> ELSE <<>>
    IN [open |-> IF closed THEN st.open \ {h} ELSE st.open,
        slots |-> IF set_fails THEN st.slots
                  ELSE [st.slots EXCEPT ![name] = INVALID_HANDLE_VALUE],
        warnings |-> st.warnings \o w1 \o w2]

\* The loop over the inherited descriptor table from index i (0-based) on:
\* table[i + 1] is handle_start.offset(i).
RECURSIVE CloseFds(_, _, _, _)
CloseFds(st, table, i, fd_fails) ==
  IF i >= Len(table) THEN st
  ELSE
    LET h == table[i + 1] IN
    IF is_invalid(h) \/ h = NO_FILE_HANDLE
    THEN CloseFds(st, table, i + 1, fd_fails)
    ELSE
      LET closed == h \in st.open /\ i \notin fd_fails IN
      CloseFds([open |-> IF closed THEN st.open \ {h} ELSE st.open,
                slots |-> st.slots,
                warnings |-> IF closed THEN st.warnings
                             ELSE st.warnings \o <<"Failed to close child file descriptors">>],
               table, i + 1, fd_fails)

close_handles(startup, open, slots, std_fails, fd_fails) ==
  LET s0 == [open |-> open, slots |-> slots, warnings |-> <<>>]
      s1 == CloseStd(s0, "stdin", "close_stdin" \in std_fails, "set_stdin" \in std_fails)
      s2 == CloseStd(s1, "stdout", "close_stdout" \in std_fails, "set_stdout" \in std_fails)
  IN
  IF startup.cbReserved2 = 0 \/ startup.lpReserved2_null
  THEN s2
  ELSE CloseFds(s2, startup.table, 3, fd_fails)

CloseHandles ==
  /\ pc = "close_handles"
  /\ \E std_fails \in SUBSET {"close_stdin", "set_stdin", "close_stdout", "set_stdout"},
        fd_fails \in SUBSET (3..(Len(si.table) - 1)) :
       LET r == close_handles(si, open_handles, std_slots, std_fails, fd_fails) IN
       /\ open_handles' = r.open
       /\ std_slots' = r.slots
       /\ last_warning' = LastOf(r.warnings)
  /\ pc' = "set_current_dir"
  /\ UNCHANGED <<inputs, locals, env, cwd, exit_status, diag, procs, jobvars, console,
                 spawn_attempted, exit_code_read, fnvars>>

\* A change of directory whose failure is fatal.
SetCurrentDirFatal ==
  /\ pc = "set_current_dir"
  /\ \E changed \in BOOLEAN :
       IF changed
       THEN /\ cwd' = "temp"
            /\ pc' = "set_ctrl_handler"
            /\ StillRunning
       ELSE /\ error_and_exit("Failed to set cwd to temp dir")
            /\ UNCHANGED cwd
  /\ last_warning' = ""
  /\ UNCHANGED <<inputs, locals, env, std_slots, console, spawn_attempted, exit_code_read,
                 fnvars>>

\* bounce: std::env::set_current_dir(std::env::temp_dir()).
SetCurrentDir ==
  /\ pc = "set_current_dir"
  /\ \E changed \in BOOLEAN :
       /\ cwd' = IF changed THEN "temp" ELSE cwd
       /\ last_warning' = IF changed THEN "" ELSE "Failed to set cwd to temp dir"
  /\ pc' = "set_ctrl_handler"
  /\ StillRunning
  /\ UNCHANGED <<inputs, locals, env, std_slots, console, spawn_attempted, exit_code_read,
                 fnvars>>

\* bounce: SetConsoleCtrlHandler(Some(control_key_handler), true).
InstallHandler ==
  /\ pc = "set_ctrl_handler"
  /\ \E installed \in BOOLEAN :
       IF installed
       THEN /\ pc' = IF is_gui THEN "clear_app_starting_state" ELSE "wait"
            /\ handler_installed' = TRUE
            /\ StillRunning
       ELSE /\ error_and_exit("Control handler setting failed")
            /\ UNCHANGED handler_installed
  /\ last_warning' = ""
  /\ UNCHANGED <<inputs, locals, env, cwd, std_slots, ctrl_events, last_event,
                 spawn_attempted, exit_code_read, fnvars>>

\* clear_app_starting_state: each of the first three calls may fail with a
\* warning, the window may not be created, and a window that was created
\* and cannot be destroyed is fatal.
GuiWarnings(failed) ==
  (IF "post" \in failed THEN <<"Failed to post a message to specified window">> ELSE <<>>)
  \o (IF "get" \in failed THEN <<"Failed to retrieve posted window message">> ELSE <<>>)
  \o (IF "idle" \in failed THEN <<"Failed to wait for input from window">> ELSE <<>>)

ClearAppStartingState ==
  /\ pc = "clear_app_starting_state"
  /\ \E failed \in SUBSET {"post", "get", "idle"},
        window \in {"not_created", "destroyed", "destroy_failed"} :
       /\ last_warning' = LastOf(GuiWarnings(failed))
       /\ IF window = "destroy_failed"
          THEN error_and_exit("Failed to destroy temporary window")
          ELSE /\ pc' = "wait"
               /\ StillRunning
  /\ UNCHANGED <<inputs, locals, env, cwd, std_slots, console, spawn_attempted,
                 exit_code_read, fnvars>>

\* ------------------------------------------------------ wait and exit

\* WaitForSingleObject(child_handle, INFINITE), its result dropped: the call
\* returns once the child has terminated, and at once on a closed handle.
WaitForChild ==
  /\ pc = "wait"
  /\ child # "running" \/ Handle.child_process \notin open_handles
  /\ pc' = "get_exit_code"
  /\ last_warning' = ""
  /\ StillRunning
  /\ UNCHANGED <<inputs, locals, env, cwd, std_slots, console, spawn_attempted,
                 exit_code_read, fnvars>>

\* GetExitCodeProcess and exit_with_status(exit_code).
GetExitCodeAndExit ==
  /\ pc = "get_exit_code"
  /\ \E retrieved \in BOOLEAN :
       IF retrieved /\ Handle.child_process \in open_handles
       THEN /\ exit_code_read' = [read |-> TRUE, state |-> child]
            /\ EndLauncher("exited",
                           exit_with_status(IF child = "running" THEN STILL_ACTIVE
                                            ELSE child_code),
                           diag)
       ELSE /\ error_and_exit("Failed to get exit code of child process")
            /\ UNCHANGED exit_code_read
  /\ last_warning' = ""
  /\ UNCHANGED <<inputs, locals, env, cwd, std_slots, console, spawn_attempted, fnvars>>

\* ------------------------------------------------------ the surroundings

MaxCtrlEvents == 2

ExitCodes == {u32_of(0), u32_of(1), STILL_ACTIVE, U32(32768, 0), U32(65535, 65535)}

CtrlEventTypes ==
  {"CTRL_C_EVENT", "CTRL_BREAK_EVENT", "CTRL_CLOSE_EVENT", "CTRL_LOGOFF_EVENT",
   "CTRL_SHUTDOWN_EVENT"}

\* The child terminates with some exit code.
ChildExits ==
  /\ child = "running"
  /\ \E code \in ExitCodes :
       /\ child' = "exited"
       /\ child_code' = code
  /\ UNCHANGED <<inputs, pc, locals, env, cwd, exit_status, diag, last_warning, open_handles,
                 std_slots, child_in_job, grandchild, grandchild_in_job, jobvars, console,
                 spawn_attempted, exit_code_read, fnvars>>

\* The child creates a process. A process created by a member of a job
\* joins the job unless the job allows silent breakaway.
ChildSpawns ==
  /\ child = "running"
  /\ grandchild = "none"
  /\ grandchild' = "running"
  /\ grandchild_in_job' = (child_in_job /\ "SILENT_BREAKAWAY_OK" \notin job_limits)
  /\ UNCHANGED <<inputs, pc, locals, env, cwd, exit_status, diag, last_warning, open_handles,
                 std_slots, child, child_code, child_in_job, jobvars, console,
                 spawn_attempted, exit_code_read, fnvars>>

GrandchildExits ==
  /\ grandchild = "running"
  /\ grandchild' = "exited"
  /\ UNCHANGED <<inputs, pc, locals, env, cwd, exit_status, diag, last_warning, open_handles,
                 std_slots, child, child_code, child_in_job, grandchild_in_job, jobvars,
                 console, spawn_attempted, exit_code_read, fnvars>>

\* A handler that reports every event as not handled.
control_key_handler_declines(event) == FALSE

\* control_key_handler: TRUE, and nothing else.
control_key_handler(event) == TRUE

\* A console control event reaches the launcher. Without a handler that
\* reports it handled, the default handler ends the process. After a handler
\* has returned TRUE for a close, logoff or shutdown event the system ends
\* the process all the same.
ConsoleEvent ==
  /\ Alive
  /\ ctrl_events < MaxCtrlEvents
  /\ \E event \in CtrlEventTypes :
       /\ ctrl_events' = ctrl_events + 1
       /\ last_event' = event
       /\ IF /\ handler_installed
             /\ control_key_handler(event)
             /\ event \in {"CTRL_C_EVENT", "CTRL_BREAK_EVENT"}
          THEN UNCHANGED <<pc, exit_status, diag, open_handles, procs, jobvars>>
          ELSE EndLauncher("killed", ControlCExit, diag)
  /\ UNCHANGED <<inputs, locals, env, cwd, last_warning, std_slots, handler_installed,
                 spawn_attempted, exit_code_read, fnvars>>

\* The launcher is terminated from outside.
KillLauncher ==
  /\ Alive
  /\ EndLauncher("killed", KilledStatus, diag)
  /\ UNCHANGED <<inputs, locals, env, cwd, last_warning, std_slots, console, spawn_attempted,
                 exit_code_read, fnvars>>

\* --------------------------------------- the command-line functions alone

\* Short byte strings over quote, backslash, space, a letter and tab.
MaxArgLen == 4
MaxRestLen == 2

ArgAlphabet == {QUOTE, BACKSLASH, SPACE, LOWER_A, 9}

ByteStrings(n) == UNION {[1..k -> ArgAlphabet] : k \in 0..n}

ApplySkip ==
  /\ pc = "fn_start"
  /\ pc' = "fn_skipped"
  /\ remainder' = skip_one_argument(arguments)
  /\ UNCHANGED <<inputs, locals, env, cwd, exit_status, diag, last_warning, open_handles,
                 std_slots, procs, jobvars, console, spawn_attempted, exit_code_read,
                 arguments, quoted_path>>

ApplyQuote ==
  /\ pc = "fn_start"
  /\ pc' = "fn_quoted"
  /\ quoted_path' = push_quoted_path(arguments, <<>>)
  /\ UNCHANGED <<inputs, locals, env, cwd, exit_status, diag, last_warning, open_handles,
                 std_slots, procs, jobvars, console, spawn_attempted, exit_code_read,
                 arguments, remainder>>

\* skip_one_argument over a quoted path followed by a space and further
\* arguments (kept in command_line).
SkipQuoted ==
  /\ pc = "fn_quoted"
  /\ pc' = "fn_done"
  /\ \E rest \in ByteStrings(MaxRestLen) :
       /\ command_line' = rest
       /\ remainder' = skip_one_argument(quoted_path \o <<SPACE>> \o rest)
  /\ UNCHANGED <<image, executable_name, fs, is_gui, si, locals, env, cwd, exit_status, diag,
                 last_warning, open_handles, std_slots, procs, jobvars, console,
                 spawn_attempted, exit_code_read, arguments, quoted_path>>

\* ------------------------------------------------------------ the inputs

LAUNCHER_EXE ==
  Bytes(<<"C", ":", "\\", "e", "n", "v", "\\", "S", "c", "r", "i", "p", "t", "s", "\\",
          "t", "o", "o", "l", ".", "e", "x", "e">>)

PyAbsolute ==
  Bytes(<<"C", ":", "\\", "e", "n", "v", "\\", "p", "y", "t", "h", "o", "n", ".", "e", "x", "e">>)
PyRelative == Bytes(<<"p", "y", "t", "h", "o", "n", ".", "e", "x", "e">>)
PyJoined ==
  Bytes(<<"C", ":", "\\", "e", "n", "v", "\\", "S", "c", "r", "i", "p", "t", "s", "\\",
          "p", "y", "t", "h", "o", "n", ".", "e", "x", "e">>)
PyDriveRelative == Bytes(<<"C", ":", "p", "y", "t", "h", "o", "n", ".", "e", "x", "e">>)
PyQuoted == Bytes(<<"C", ":", "\\", "a", " ", "\"", "b", "\\", "p", "y">>)
PyNul == Bytes(<<"C", ":", "\\", "a">>) \o <<NUL>> \o Bytes(<<"b">>)
PyRoot == Bytes(<<"C", ":", "\\">>)
PyAccent == <<195, 169>> \o Bytes(<<".", "e", "x", "e">>)
PyReal ==
  Bytes(<<"C", ":", "\\", "p", "y", "\\", "p", "y", "t", "h", "o", "n", ".", "e", "x", "e">>)

Stems == {PyAbsolute, PyRelative, PyDriveRelative, PyQuoted, PyNul, PyRoot, PyAccent}

\* Canonical paths of the files that exist. In the first file system the
\* interpreter is reached through links from the environment's
\* directories, in the second the same paths are plain files.
LinkedCanon ==
  (PyAbsolute :> PyReal) @@ (PyJoined :> PyReal) @@ (PyDriveRelative :> PyReal)
  @@ (PyQuoted :> PyQuoted) @@ (PyReal :> PyReal)

PlainCanon ==
  (PyAbsolute :> PyAbsolute) @@ (PyJoined :> PyJoined) @@ (PyDriveRelative :> PyJoined)
  @@ (PyQuoted :> PyQuoted) @@ (PyReal :> PyReal)

FileSystems ==
  {[canon |-> c, files |-> f] :
     c \in {LinkedCanon, PlainCanon},
     f \in {{}, {Bytes(<<"C", ":", "\\">>) \o PYVENV_CFG},
            {Bytes(<<"C", ":", "\\", "e", "n", "v", "\\">>) \o PYVENV_CFG}}}

LinkedFileSystem == [canon |-> LinkedCanon, files |-> {}]

CmdToolVersion == Bytes(<<"t", "o", "o", "l", " ", "-", "-", "v", "e", "r", "s", "i", "o", "n">>)
CmdQuotedProg ==
  Bytes(<<"\"", "p", "r", "o", "g", ".", "e", "x", "e", "\"", " ", "-", "-", "f", "l", "a", "g",
          " ", "\"", "a", " ", "b", "\"", " ", "c">>)
CmdBare == Bytes(<<"t", "o", "o", "l">>)
CmdTab == Bytes(<<"t", "\\", "\"", " ", "l">>) \o <<9>> \o Bytes(<<"x">>)

CommandLines == {CmdToolVersion, CmdQuotedProg, CmdBare, CmdTab}

NoEnv == [PYTHONHOME |-> EnvUnset, __PYVENV_LAUNCHER__ |-> EnvUnset]

Environments ==
  {[NoEnv EXCEPT !.PYTHONHOME = v] :
     v \in {EnvUnset, EnvValue(<<>>), EnvValue(Bytes(<<"C", ":", "\\", "h">>)), EnvNotUnicode}}

\* A well-formed image: lead bytes, the path, its length, the tag.
MakeImage(leadpad, leadtail, stem, pad, k) ==
  [leadpad |-> leadpad, leadtail |-> leadtail, stem |-> stem, pad |-> pad,
   trailer |-> u32_to_le_bytes(u32_of(Len(stem) + pad)) \o magic_number(k)]

Kinds == {"Script", "Python"}

MaxPad == 1
MaxLeadPad == 1

\* Lead bytes that end like a tag and are not UTF-8.
LeadTails == {<<>>, <<255>> \o magic_number("Script")}

SmallImages ==
  {MakeImage(lp, lt, stem, pad, k) :
     lp \in (0..MaxLeadPad) \cup {INITIAL_WINDOW}, lt \in LeadTails, stem \in Stems,
     pad \in 0..MaxPad, k \in Kinds}

\* Path lengths around the first window (L + 8 = 1024) and at the limit.
LongLengths ==
  {INITIAL_WINDOW - 9, INITIAL_WINDOW - 8, INITIAL_WINDOW - 7, MAX_PATH_LEN - 1, MAX_PATH_LEN}

LongImages ==
  {MakeImage(lp, lt, PyRoot, len - Len(PyRoot), k) :
     lp \in {0, INITIAL_WINDOW}, lt \in LeadTails, len \in LongLengths, k \in Kinds}

PlainImages == {MakeImage(0, <<>>, stem, 0, k) : stem \in Stems, k \in Kinds}

\* Images that are not well formed: [lead, path bytes, what follows them].
Malformed(leadtail, stem, trailer) ==
  [leadpad |-> 0, leadtail |-> leadtail, stem |-> stem, pad |-> 0, trailer |-> trailer]

MalformedImages ==
  { \* no tag
    Malformed(<<>>, PyAbsolute, u32_to_le_bytes(u32_of(Len(PyAbsolute))) \o Bytes(<<"U", "V", "P", "X">>)),
    Malformed(<<>>, <<>>, <<>>),
    \* L = 40000 and L = MAX_PATH_LEN + 1, L with the high half set
    Malformed(<<>>, PyAbsolute, u32_to_le_bytes(u32_of(40000)) \o magic_number("Script")),
    Malformed(<<>>, PyAbsolute, u32_to_le_bytes(u32_of(MAX_PATH_LEN + 1)) \o magic_number("Python")),
    Malformed(<<>>, PyAbsolute, u32_to_le_bytes(U32(65535, 17)) \o magic_number("Python")),
    \* no room for the length field
    Malformed(<<>>, <<>>, magic_number("Script")),
    Malformed(<<>>, Bytes(<<"a", "b", "c">>), magic_number("Python")),
    \* L + 8 larger than the file
    Malformed(<<>>, PyRelative, u32_to_le_bytes(u32_of(Len(PyRelative) + 1)) \o magic_number("Script")),
    \* not UTF-8
    Malformed(<<>>, <<67, 58, 92, 255>>, u32_to_le_bytes(u32_of(4)) \o magic_number("Python")),
    Malformed(<<97>>, <<169, 97>>, u32_to_le_bytes(u32_of(2)) \o magic_number("Script")) }

StartupInfo(use, table) ==
  [use_std_handles |-> use, cbReserved2 |-> IF Len(table) = 0 THEN 0 ELSE 4 + 9 * Len(table),
   lpReserved2_null |-> Len(table) = 0, table |-> table]

StdSlots == [stdin |-> Handle.stdin, stdout |-> Handle.stdout, stderr |-> Handle.stderr]

\* How the launcher was started: the startup information, the standard
\* handle slots and the handles open in it.
Startups ==
  { [si |-> StartupInfo(TRUE, << Handle.stdin, Handle.stdout, Handle.stderr, Handle.fd3,
                                INVALID_HANDLE_VALUE, NO_FILE_HANDLE, Handle.fd4 >>),
     slots |-> StdSlots,
     open |-> {Handle.stdin, Handle.stdout, Handle.stderr, Handle.fd3, Handle.fd4}],
    [si |-> StartupInfo(FALSE, <<>>),
     slots |-> StdSlots,
     open |-> {Handle.stdin, Handle.stdout, Handle.stderr}],
    [si |-> StartupInfo(FALSE, << Handle.stdin, Handle.stdout, Handle.stderr, Handle.fd3,
                                 Handle.fd3 >>),
     slots |-> [StdSlots EXCEPT !.stdin = 0],
     open |-> {Handle.stdout, Handle.stderr, Handle.fd3}],
    \* a parent that passes one handle as hStdOutput and as hStdError
    [si |-> StartupInfo(TRUE, <<>>),
     slots |-> [StdSlots EXCEPT !.stderr = Handle.stdout],
     open |-> {Handle.stdin, Handle.stdout}] }

PlainStartup == CHOOSE st \in Startups : ~st.si.use_std_handles /\ st.si.lpReserved2_null

\* The launcher process as it starts.
InitLauncher ==
  /\ executable_name = LAUNCHER_EXE
  /\ pc = "start"
  /\ bytes_to_read = 0
  /\ kind = "None"
  /\ path = <<>>
  /\ child_cmdline = <<>>
  /\ cwd = "original"
  /\ exit_status = NoStatus
  /\ diag = ""
  /\ last_warning = ""
  /\ child = "none"
  /\ child_code = NoStatus
  /\ child_in_job = FALSE
  /\ grandchild = "none"
  /\ grandchild_in_job = FALSE
  /\ job = "none"
  /\ job_limits = {}
  /\ handler_installed = FALSE
  /\ ctrl_events = 0
  /\ last_event = ""
  /\ spawn_attempted = FALSE
  /\ exit_code_read = [read |-> FALSE, state |-> "none"]
  /\ arguments = <<>>
  /\ remainder = <<>>
  /\ quoted_path = <<>>

StartedAs(st) ==
  /\ si = st.si
  /\ std_slots = st.slots
  /\ open_handles = st.open

\* A whole run of bounce with its surroundings.
Init ==
  /\ InitLauncher
  /\ image \in {MakeImage(0, <<>>, PyAbsolute, 0, "Script"),
                MakeImage(0, <<>>, PyRelative, 0, "Python")}
  /\ command_line = CmdToolVersion
  /\ fs = LinkedFileSystem
  /\ env = NoEnv
  /\ is_gui \in BOOLEAN
  /\ StartedAs(PlainStartup)

Next ==
  \/ OpenImage
  \/ ReadWindow
  \/ ResolvePath
  \/ BuildCmdline
  \/ CreateProcess
  \/ CloseThreadHandle
  \/ CreateJob
  \/ ConfigureJob
  \/ AssignJob
  \/ CloseHandles
  \/ SetCurrentDir
  \/ InstallHandler
  \/ ClearAppStartingState
  \/ WaitForChild
  \/ GetExitCodeAndExit
  \/ ChildExits
  \/ ChildSpawns
  \/ GrandchildExits
  \/ ConsoleEvent
  \/ KillLauncher

Spec == Init /\ [][Next]_vars

\* The launcher up to the creation of the child, over many images, command
\* lines, environments and file systems.
InitStartup ==
  /\ InitLauncher
  /\ is_gui = FALSE
  /\ StartedAs(PlainStartup)
  /\ \/ /\ image \in SmallImages \cup MalformedImages
        /\ command_line = CmdToolVersion
        /\ fs \in {[canon |-> c, files |-> {}] : c \in {LinkedCanon, PlainCanon}}
        /\ env = NoEnv
     \/ /\ image \in LongImages
        /\ command_line = CmdToolVersion
        /\ fs = LinkedFileSystem
        /\ env = NoEnv
     \/ /\ image \in PlainImages
        /\ command_line \in CommandLines
        /\ fs \in FileSystems
        /\ env \in Environments

NextStartup ==
  \/ OpenImage
  \/ ReadWindow
  \/ ResolvePath
  \/ BuildCmdline
  \/ CreateProcess

SpecStartup == InitStartup /\ [][NextStartup]_vars

\* skip_one_argument and push_quoted_path applied on their own.
InitArgs ==
  /\ pc = "fn_start"
  /\ arguments \in ByteStrings(MaxArgLen) \cup CommandLines \cup Stems
  /\ command_line = <<>>
  /\ remainder = <<>>
  /\ quoted_path = <<>>
  /\ image = Malformed(<<>>, <<>>, <<>>)
  /\ executable_name = <<>>
  /\ fs = LinkedFileSystem
  /\ env = NoEnv
  /\ is_gui = FALSE
  /\ StartedAs(PlainStartup)
  /\ bytes_to_read = 0
  /\ kind = "None"
  /\ path = <<>>
  /\ child_cmdline = <<>>
  /\ cwd = "original"
  /\ exit_status = NoStatus
  /\ diag = ""
  /\ last_warning = ""
  /\ child = "none"
  /\ child_code = NoStatus
  /\ child_in_job = FALSE
  /\ grandchild = "none"
  /\ grandchild_in_job = FALSE
  /\ job = "none"
  /\ job_limits = {}
  /\ handler_installed = FALSE
  /\ ctrl_events = 0
  /\ last_event = ""
  /\ spawn_attempted = FALSE
  /\ exit_code_read = [read |-> FALSE, state |-> "none"]

NextArgs ==
  \/ ApplySkip
  \/ ApplyQuote
  \/ SkipQuoted

SpecArgs == InitArgs /\ [][NextArgs]_vars

\* A run of bounce for every way the launcher may have been started, with
\* the child exiting at any time and nothing else around it.
InitCleanup ==
  /\ InitLauncher
  /\ image = MakeImage(0, <<>>, PyAbsolute, 0, "Script")
  /\ command_line = CmdToolVersion
  /\ fs = LinkedFileSystem
  /\ env = NoEnv
  /\ is_gui \in BOOLEAN
  /\ \E st \in Startups : StartedAs(st)

NextCleanup ==
  \/ OpenImage
  \/ ReadWindow
  \/ ResolvePath
  \/ BuildCmdline
  \/ CreateProcess
  \/ CloseThreadHandle
  \/ CreateJob
  \/ ConfigureJob
  \/ AssignJob
  \/ CloseHandles
  \/ SetCurrentDir
  \/ InstallHandler
  \/ ClearAppStartingState
  \/ WaitForChild
  \/ GetExitCodeAndExit
  \/ ChildExits

SpecCleanup == InitCleanup /\ [][NextCleanup]_vars

\* ------------------------------------------------------------- claims

\* The image is a well-formed trailer after arbitrary lead bytes: the path
\* is valid UTF-8 of at most MAX_PATH_LEN bytes and is followed by its
\* length as u32 little-endian and one of the two tags.
WellFormed(img) ==
  /\ Len(img.stem) + img.pad <= MAX_PATH_LEN
  /\ \E k \in Kinds :
       img.trailer = u32_to_le_bytes(u32_of(Len(img.stem) + img.pad)) \o magic_number(k)
  /\ is_utf8(ImagePath(img))

\* The kind whose tag was appended to a well-formed image.
ImageKind(img) ==
  CHOOSE k \in Kinds :
    img.trailer = u32_to_le_bytes(u32_of(Len(img.stem) + img.pad)) \o magic_number(k)

\* The messages of the errors of the read loop, and of its panic.
ReadLoopMessages ==
  {"magic number not found", "length missing", "path too long", "path not utf-8",
   "path length exceeds file size", "attempt to subtract with overflow"}

\* C1: a well-formed image is decoded by the read loop to exactly the kind
\* and the path bytes that were appended, whatever the lead bytes are and
\* whether or not the path fits the first window of 1024 bytes; a window
\* that is regrown is regrown to exactly L + 8 bytes, and the loop never
\* ends in an error.
TrailerRoundTrip ==
  WellFormed(image) =>
    /\ pc = "resolve_path" => kind = ImageKind(image) /\ path = ImagePath(image)
    /\ pc = "read_loop" =>
         \/ bytes_to_read = InitialBytesToRead(ImageSize(image))
         \/ bytes_to_read = Len(image.stem) + image.pad + 8
    /\ pc = "exited" => diag \notin ReadLoopMessages

\* A path longer than the first window, after lead bytes that are not
\* UTF-8 and end like a tag, has been decoded at the maximal length.
TrailerRoundTripWitness ==
  /\ pc = "resolve_path"
  /\ WellFormed(image)
  /\ Len(path) = MAX_PATH_LEN
  /\ Len(path) > INITIAL_WINDOW
  /\ image.leadpad > 0
  /\ Len(image.leadtail) > 0
  /\ bytes_to_read = MAX_PATH_LEN + 8
  /\ path = ImagePath(image)

\* The bytes of the image are malformed in one of the ways of C6.
MalformedBytes(bytes) ==
  \/ from_buffer(bytes) = "None"
  \/ Len(bytes) < 8
  \/ LET len_field == u32_from_le_bytes(SubSeq(bytes, Len(bytes) - 7, Len(bytes) - 4)) IN
     \/ u32_gt(len_field, MAX_PATH_LEN)
     \/ as_usize(len_field) + 8 > Len(bytes)
     \/ ~is_utf8(SubSeq(bytes, Len(bytes) - 7 - as_usize(len_field), Len(bytes) - 8))

\* C6: for a malformed trailer decoding ends in the error outcome, with a
\* diagnostic of the read loop and exit status 1, and no child process
\* creation is attempted.
MalformedTrailerIsFatal ==
  MalformedBytes(ImageBytes(image)) =>
    /\ ~spawn_attempted
    /\ pc \in {"start", "read_loop", "exited"}
    /\ pc = "exited" =>
         /\ exit_status = u32_of(1)
         /\ diag \in ReadLoopMessages \ {"attempt to subtract with overflow"}

\* C8: once the path is resolved, a decoded path that is relative has been
\* joined onto the launcher's directory, the result is canonical whenever
\* the decoded path was relative or the kind is Script, and an absolute
\* path of Python kind is returned as decoded.
PathResolutionClaim ==
  (pc = "make_child_cmdline" /\ WellFormed(image)) =>
    LET decoded == ImagePath(image)
        joined == IF is_absolute(decoded) THEN decoded
                  ELSE join(parent(executable_name).path, decoded)
    IN IF ~is_absolute(decoded) \/ kind = "Script"
       THEN canonicalize(fs, joined).ok => path = canonicalize(fs, joined).path
       ELSE path = decoded

\* The double-quoted form of a path in the words of the claim: a quote, the
\* bytes of the path with every quote tripled, a quote.
RECURSIVE Tripled(_)
Tripled(p) ==
  IF p = <<>> THEN <<>>
  ELSE IF Len(p) = 1 THEN (IF p[1] = QUOTE THEN <<QUOTE, QUOTE, QUOTE>> ELSE p)
  ELSE LET half == Len(p) \div 2 IN
       Tripled(SubSeq(p, 1, half)) \o Tripled(SubSeq(p, half + 1, Len(p)))

DoubleQuoted(p) == <<QUOTE>> \o Tripled(p) \o <<QUOTE>>

ExampleCmdline ==
  Bytes(<<"\"", "C", ":", "\\", "e", "n", "v", "\\", "p", "y", "t", "h", "o", "n", ".", "e",
          "x", "e", "\"", " ", "\"", "C", ":", "\\", "e", "n", "v", "\\", "S", "c", "r", "i",
          "p", "t", "s", "\\", "t", "o", "o", "l", ".", "e", "x", "e", "\"", " ", "-", "-",
          "v", "e", "r", "s", "i", "o", "n">>) \o <<NUL>>

\* C2: the command line built is the double-quoted interpreter path, one
\* space, for Script kind the double-quoted path of the launcher, the bytes
\* of the invocation after its first token, and one NUL at the end and
\* nowhere else; the Script example yields the example command line, and
\* for Python kind the launcher's path is not put in.
CmdlineComposition ==
  pc = "spawn_child" =>
    /\ child_cmdline =
         DoubleQuoted(path) \o <<SPACE>>
         \o (IF kind = "Script" THEN DoubleQuoted(executable_name) ELSE <<>>)
         \o skip_one_argument(command_line) \o <<NUL>>
    /\ \A i \in 1..Len(child_cmdline) : child_cmdline[i] = NUL <=> i = Len(child_cmdline)
    /\ (kind = "Script" /\ path = PyAbsolute /\ command_line = CmdToolVersion)
         => child_cmdline = ExampleCmdline

\* The Script example of C2 has been built.
CmdlineCompositionWitness ==
  /\ pc = "spawn_child"
  /\ kind = "Script"
  /\ path = PyAbsolute
  /\ executable_name = LAUNCHER_EXE
  /\ command_line = CmdToolVersion
  /\ child_cmdline = ExampleCmdline

\* PYTHONHOME is unset or empty.
HomeUnsetOrEmpty(e) == e.PYTHONHOME.st = "unset" \/ Len(e.PYTHONHOME.val) = 0

\* C9: over a step in which make_child_cmdline returns, in Python kind the
\* launcher marker is set to the launcher's path and PYTHONHOME is set to
\* the interpreter's parent directory exactly when no pyvenv.cfg is in the
\* interpreter's grandparent directory and PYTHONHOME was unset or empty;
\* a non-empty PYTHONHOME is not overwritten, and in Script kind neither
\* variable is written.
EnvWritesClaimStep ==
  (pc = "make_child_cmdline" /\ pc' = "spawn_child") =>
    IF kind = "Python"
    THEN
      /\ env'.__PYVENV_LAUNCHER__ = EnvValue(executable_name)
      /\ env'.PYTHONHOME =
           IF ~is_virtualenv(fs, path) /\ HomeUnsetOrEmpty(env)
           THEN EnvValue(parent(path).path)
           ELSE env.PYTHONHOME
      /\ ~HomeUnsetOrEmpty(env) => env'.PYTHONHOME = env.PYTHONHOME
    ELSE env' = env

EnvWritesClaim == [][EnvWritesClaimStep]_vars

\* C3: a launcher that exits with a status read from the child does so
\* only after the child has terminated, with the child's exit code as its
\* own status for every 32-bit code; the child's process handle is open
\* from the wait until the code is retrieved, and when the retrieval fails
\* the status is 1.
ExitPropagation ==
  /\ (pc = "exited" /\ exit_code_read.read) =>
       /\ exit_code_read.state = "exited"
       /\ child = "exited"
       /\ exit_status = child_code
  /\ pc \in {"wait", "get_exit_code"} => Handle.child_process \in open_handles
  /\ (pc = "exited" /\ diag = "Failed to get exit code of child process") =>
       /\ exit_status = u32_of(1)
       /\ ~exit_code_read.read

\* The launcher has exited with a child's code that has the top bit set.
ExitPropagationWitness ==
  /\ pc = "exited"
  /\ exit_code_read.read
  /\ child = "exited"
  /\ child_code = U32(32768, 0)
  /\ exit_status = U32(32768, 0)
  /\ handler_installed

\* C4: once the child process exists, a launcher that has ended (by exit,
\* by a fatal error or by forced termination) has its job closed, and
\* neither the child nor a process the child created is still running.
UnitTeardownClaim ==
  (child # "none" /\ pc \in {"exited", "killed"}) =>
    /\ job = "closed"
    /\ child # "running"
    /\ grandchild # "running"

\* C5 as stated: a console control event delivered to the launcher while
\* the child is running does not end the launcher and does not change the
\* step it is in.
SignalDeferralClaimStep ==
  (ctrl_events' # ctrl_events /\ child = "running") =>
    /\ pc' = pc
    /\ exit_status' = exit_status

SignalAbsorbedStep ==
  (/\ ctrl_events' # ctrl_events
   /\ handler_installed
   /\ last_event' \in {"CTRL_C_EVENT", "CTRL_BREAK_EVENT"}) =>
    UNCHANGED <<pc, exit_status, diag, open_handles, procs, jobvars>>

PairStart(s, i) ==
  /\ i < Len(s)
  /\ s[i] = BACKSLASH
  /\ s[i + 1] \in {QUOTE, BACKSLASH}

MetPositions(s) ==
  LET met[i \in 1..Len(s)] ==
        IF i = 1 THEN TRUE
        ELSE IF met[i - 1] THEN ~PairStart(s, i - 1)
        ELSE TRUE
  IN {i \in 1..Len(s) : met[i]}

QuotedAt(s, i) ==
  Cardinality({j \in MetPositions(s) : j < i /\ s[j] = QUOTE}) % 2 = 1

CutPositions(s) ==
  {i \in MetPositions(s) : s[i] \in {32, 9, 10, 12, 13} /\ ~QuotedAt(s, i)}

ExpectedRemainder(s) ==
  IF CutPositions(s) = {} THEN <<>>
  ELSE SubSeq(s, CHOOSE i \in CutPositions(s) : \A j \in CutPositions(s) : i <= j, Len(s))

ExampleRemainder ==
  Bytes(<<" ", "-", "-", "f", "l", "a", "g", " ", "\"", "a", " ", "b", "\"", " ", "c">>)

\* C10: the result of skip_one_argument is a suffix of its input, cut at
\* the first whitespace byte met while the quoted state is off, where a
\* quote toggles the state and a backslash followed by a quote or a
\* backslash is consumed as a pair; it is empty when there is no such
\* byte; for the example invocation it is the example remainder.
SkipIsVerbatimSuffix ==
  pc = "fn_skipped" =>
    /\ \E k \in 0..Len(arguments) : remainder = SubSeq(arguments, k + 1, Len(arguments))
    /\ remainder = ExpectedRemainder(arguments)
    /\ CutPositions(arguments) = {} => remainder = <<>>
    /\ arguments = CmdQuotedProg => remainder = ExampleRemainder

\* The example invocation has been skipped over: the cut is at the space
\* after the closing quote, and the spaces inside the later quotes stay.
SkipIsVerbatimSuffixWitness ==
  /\ pc = "fn_skipped"
  /\ arguments = CmdQuotedProg
  /\ remainder = ExampleRemainder
  /\ Len(remainder) < Len(arguments)

\* The content of the first token of s under the same rule: the quotes
\* that toggle the state delimit and are left out, a pair stands for its
\* second byte, any other byte of the token stands for itself.
TokenContent(s) ==
  LET end == IF CutPositions(s) = {} THEN Len(s) + 1
             ELSE CHOOSE i \in CutPositions(s) : \A j \in CutPositions(s) : i <= j
      kept == {i \in 1..(end - 1) :
                 \/ i \in MetPositions(s) /\ s[i] # QUOTE /\ ~PairStart(s, i)
                 \/ i \notin MetPositions(s)}
      nth[k \in 0..Cardinality(kept)] ==
        IF k = 0 THEN 0 ELSE CHOOSE i \in kept : i > nth[k - 1] /\ \A j \in kept : j > nth[k - 1] => i <= j
  IN [k \in 1..Cardinality(kept) |-> s[nth[k]]]

\* C7: the quoted form q of a path p, followed by a space and further
\* arguments, is skipped over exactly: the remainder begins at that space,
\* and the content of the token is p.
QuotingRoundTripClaim ==
  pc = "fn_done" =>
    /\ remainder = <<SPACE>> \o command_line
    /\ TokenContent(quoted_path \o <<SPACE>> \o command_line) = arguments

\* The position of the whitespace byte that ends the first token of s.
FirstCut(s) == CHOOSE i \in CutPositions(s) : \A j \in CutPositions(s) : i <= j

\* C11 as stated: when an unquoted whitespace byte ends the first token,
\* the remainder starts at the first byte after it, the separator left out.
SeparatorExcludedClaim ==
  (pc = "fn_skipped" /\ CutPositions(arguments) # {}) =>
    remainder = SubSeq(arguments, FirstCut(arguments) + 1, Len(arguments))

\* C11, amended: when an unquoted whitespace byte ends the first token, the
\* remainder starts at that byte: the separator is the first byte of the
\* remainder, and everything after it follows.
SeparatorKept ==
  (pc = "fn_skipped" /\ CutPositions(arguments) # {}) =>
    /\ Len(remainder) = Len(arguments) - FirstCut(arguments) + 1
    /\ remainder[1] = arguments[FirstCut(arguments)]
    /\ remainder[1] \in {32, 9, 10, 12, 13}
    /\ Tail(remainder) = SubSeq(arguments, FirstCut(arguments) + 1, Len(arguments))

\* `tool --version` has been skipped over: the remainder is ` --version`,
\* space first.
SeparatorKeptWitness ==
  /\ pc = "fn_skipped"
  /\ arguments = CmdToolVersion
  /\ remainder = Bytes(<<" ", "-", "-", "v", "e", "r", "s", "i", "o", "n">>)

\* The messages of the fatal conditions of a run.
FatalMessages ==
  (ReadLoopMessages \ {"attempt to subtract with overflow"})
  \cup {"no parent directory", "canonicalize failed", "command line not null terminated",
        "Failed to spawn the python child process",
        "Failed to close handle to python child process main thread",
        "Job creation failed", "Job information querying failed",
        "Job information setting failed", "Failed to assign child process to the job",
        "Control handler setting failed", "Failed to destroy temporary window",
        "Failed to get exit code of child process"}

\* The messages of the best-effort steps.
WarningMessages ==
  {"Making stdin inheritable failed", "Making stdout inheritable failed",
   "Making stderr inheritable failed", "Failed to close standard device handle",
   "Failed to modify standard device handle", "Failed to close child file descriptors",
   "Failed to set cwd to temp dir", "Failed to post a message to specified window",
   "Failed to retrieve posted window message", "Failed to wait for input from window"}

StartupOf(startup) == CHOOSE st \in Startups : st.si = startup

\* The handles the reclaimer is to close: the standard input and output
\* handles and the entries of the inherited table from index 3 on that are
\* not a sentinel.
ReclaimTargets(st) ==
  {st.slots.stdin, st.slots.stdout}
  \cup {st.si.table[i + 1] : i \in {j \in 3..(Len(st.si.table) - 1) :
                                     st.si.table[j + 1] \notin {-1, -2}}}

BeforeReclaim ==
  {"start", "read_loop", "resolve_path", "make_child_cmdline", "spawn_child", "close_thread",
   "make_job_object", "configure_job", "assign_job", "close_handles"}

AfterReclaim ==
  {"set_current_dir", "set_ctrl_handler", "clear_app_starting_state", "wait", "get_exit_code"}

\* C13: up to and including the assignment of the child to the job every
\* handle the launcher was started with is open and the standard slots are
\* untouched; once the reclaimer has run, the child exists and is in the
\* job, every handle that was closed is one of the reclaimer's targets, and
\* standard error, the child process handle and the job handle are open.
ReclamationFrameClaim ==
  LET st == StartupOf(si) IN
  /\ pc \in BeforeReclaim =>
       /\ st.open \subseteq open_handles
       /\ std_slots = st.slots
  /\ pc \in AfterReclaim =>
       /\ child # "none"
       /\ child_in_job
       /\ (st.open \ open_handles) \subseteq ReclaimTargets(st)
       /\ st.slots.stderr \in open_handles
       /\ std_slots.stderr = st.slots.stderr
       /\ Handle.child_process \in open_handles
       /\ Handle.job \in open_handles

====
